---- MODULE Spec2Model ----
(***************************************************************************)
(* A model of pyenasolar (src/pyenasolar/__init__.py): the Sensor record,  *)
(* the Sensors registry, and the EnaSolar device session with its          *)
(* discovery (interogate_inverter), setup_sensors, read_meters and         *)
(* read_data operations.                                                   *)
(*                                                                         *)
(* Conventions                                                             *)
(*  - Python None for the integer/float profile fields is NoneVal (-1):    *)
(*    the discovery regexes only match unsigned numbers, so -1 is never a  *)
(*    discovered value.                                                    *)
(*  - Python floats are fixed-point integers in units of 1/Scale.  Every   *)
(*    factor of the sensor table is a multiple of 1/Scale, so scaling a    *)
(*    decoded integer is exact.                                            *)
(*  - A text (XML element text, regex match) is a sequence of one-char     *)
(*    strings, parsed digit by digit as int(x, 16) / int(x) / float(x) do. *)
(*  - An outcome of a call is a string: "None" (returned None), "True",    *)
(*    "False", or the exception that left the call: "NoData",              *)
(*    "UnexpectedResponse", "TypeError", "ValueError", "IndexError",       *)
(*    "ZeroDivisionError".                                                 *)
(***************************************************************************)
EXTENDS Integers, Sequences, FiniteSets, TLC

VARIABLES
    url,          \* EnaSolar.url: "None" or the base URL
    serial_no,    \* EnaSolar.serial_no
    capability,   \* EnaSolar.capability
    dc_strings,   \* EnaSolar.dc_strings
    max_output,   \* EnaSolar.max_output (fixed-point)
    sensors,      \* EnaSolar.sensors: [isNone, s] with s the list Sensors.__s
    today,        \* date.today()
    result,       \* outcome of the last call
    last,         \* the last call: its name, inputs and intermediate facts
    calls         \* number of calls made so far

vars == <<url, serial_no, capability, dc_strings, max_output, sensors, today,
          result, last, calls>>

-----------------------------------------------------------------------------
(* Bounds *)

MaxAdds == 3
MaxCapability == 511
MaxDcStrings == 3
MaxDay == 1
MaxCalls == 4
MaxMinutes == 600
MaxHalfThousands == 131

-----------------------------------------------------------------------------
(* Constants of the program *)

HAS_POWER_METER == 1
HAS_SOLAR_METER == 2
HAS_TEMPERATURE == 4
USE_FAHRENHIET == 256

NoneVal == -1
Scale == 10000

-----------------------------------------------------------------------------
(* Python primitives *)

\* the & of two non-negative ints, bit by bit
RECURSIVE BitAnd(_, _)
BitAnd(a, b) ==
    IF a = 0 \/ b = 0 THEN 0
    ELSE (IF a % 2 = 1 /\ b % 2 = 1 THEN 1 ELSE 0) + 2 * BitAnd(a \div 2, b \div 2)

\* truth value of an int
Truthy(n) == n # 0

HexDigits == <<"0", "1", "2", "3", "4", "5", "6", "7", "8", "9",
               "A", "B", "C", "D", "E", "F">>

IsDigit(c, base) == \E i \in 1..base : HexDigits[i] = c

DigitVal(c) == (CHOOSE i \in 1..16 : HexDigits[i] = c) - 1

RECURSIVE ParseDigits(_, _, _)
ParseDigits(text, base, acc) ==
    IF text = <<>> THEN acc
    ELSE ParseDigits(Tail(text), base, acc * base + DigitVal(Head(text)))

AllDigits(text, base) == \A i \in 1..Len(text) : IsDigit(text[i], base)

\* int(text, base): the number, or NoneVal where Python raises ValueError
ParseInt_Base10(text, base) ==
    IF text # <<>> /\ AllDigits(text, 10) THEN ParseDigits(text, 10, 0)
    ELSE NoneVal
ParseInt(text, base) ==
    IF text # <<>> /\ AllDigits(text, base) THEN ParseDigits(text, base, 0)
    ELSE NoneVal

RECURSIVE Pow10(_)
Pow10(n) == IF n = 0 THEN 1 ELSE 10 * Pow10(n - 1)

\* float(text) for texts of digits with at most one "." and at most four
\* fractional digits, in units of 1/Scale; NoneVal where Python raises ValueError
ParseFloat(text) ==
    LET dots == {i \in 1..Len(text) : text[i] = "."}
    IN  IF dots = {} THEN
            (IF ParseInt(text, 10) = NoneVal THEN NoneVal ELSE ParseInt(text, 10) * Scale)
        ELSE IF Cardinality(dots) > 1 THEN NoneVal
        ELSE LET d == CHOOSE i \in dots : TRUE
                 ip == SubSeq(text, 1, d - 1)
                 fp == SubSeq(text, d + 1, Len(text))
             IN  IF (ip = <<>> /\ fp = <<>>) \/ ~AllDigits(ip, 10) \/ ~AllDigits(fp, 10)
                    \/ Len(fp) > 4
                 THEN NoneVal
                 ELSE ParseDigits(ip, 10, 0) * Scale
                      + ParseDigits(fp, 10, 0) * Pow10(4 - Len(fp))

-----------------------------------------------------------------------------
(* Sensor *)

ValNone == [t |-> "None", n |-> 0, s |-> <<>>]
ValFloat(n) == [t |-> "float", n |-> n, s |-> <<>>]
ValStr(txt) == [t |-> "str", n |-> 0, s |-> txt]

\* Sensor.__init__; id is the identity of the object
Sensor(id, key, is_hex, name, factor, is_meter, unit, per_day_basis, per_total_basis) ==
    [id |-> id, key |-> key, is_hex |-> is_hex, name |-> name, unit |-> unit,
     factor |-> factor, value |-> ValNone, is_meter |-> is_meter,
     per_day_basis |-> per_day_basis, per_total_basis |-> per_total_basis,
     date |-> today, enabled |-> TRUE]

-----------------------------------------------------------------------------
(* Sensors: the registry *)

\* the loop of Sensors.__getitem__ from position i on: the position of the
\* first sensor whose name or key is the identifier, 0 for KeyError
RECURSIVE getitem_from(_, _, _)
getitem_from_NameOnly(s, key, i) ==
    IF i > Len(s) THEN 0
    ELSE IF s[i].name = key THEN i
    ELSE getitem_from(s, key, i + 1)

getitem_from(s, key, i) ==
    IF i > Len(s) THEN 0
    ELSE IF s[i].name = key \/ s[i].key = key THEN i
    ELSE getitem_from(s, key, i + 1)

getitem_index(s, key) == getitem_from(s, key, 1)

\* Sensors.__getitem__ where it does not raise
getitem(s, key) == s[getitem_index(s, key)]

\* Sensors.__contains__
contains(s, key) == getitem_index(s, key) # 0

\* list.remove(old): drops the first element that is old (object identity)
remove(s, old) ==
    LET i == CHOOSE k \in 1..Len(s) :
                 s[k].id = old.id /\ \A j \in 1..(k - 1) : s[j].id # old.id
    IN  SubSeq(s, 1, i - 1) \o SubSeq(s, i + 1, Len(s))

\* Sensors.add for one Sensor
add_sensor(s, sensor) ==
    LET s1 == IF contains(s, sensor.name)
              THEN remove(s, getitem(s, sensor.name))
              ELSE s
    IN  Append(s1, sensor)

\* Sensors.add: x is [tag |-> "Sensor", sen], [tag |-> "tuple", items] or
\* [tag |-> "other"]; st is [s, err]
RECURSIVE add(_, _)
add(st, x) ==
    IF st.err # "None" THEN st
    ELSE IF x.tag = "tuple" THEN
        (IF x.items = <<>> THEN st
         ELSE add(add(st, Head(x.items)), [tag |-> "tuple", items |-> Tail(x.items)]))
    ELSE IF x.tag # "Sensor" THEN [s |-> st.s, err |-> "TypeError"]
    ELSE [s |-> add_sensor(st.s, x.sen), err |-> "None"]

One(sen) == [tag |-> "Sensor", sen |-> sen]
Tuple(items) == [tag |-> "tuple", items |-> items]

BaseSensors ==
    Tuple(<<
        One(Sensor(1, "OutputPower", FALSE, "output_power", Scale, TRUE, "kW", FALSE, FALSE)),
        One(Sensor(2, "InputVoltage", FALSE, "input_voltage_1", Scale, TRUE, "V", FALSE, FALSE)),
        One(Sensor(3, "OutputVoltage", FALSE, "output_voltage", Scale, TRUE, "V", FALSE, FALSE)),
        One(Sensor(4, "EnergyToday", TRUE, "today_energy", 100, FALSE, "kWh", TRUE, FALSE)),
        One(Sensor(5, "EnergyYesterday", TRUE, "yesterday_energy", 100, FALSE, "kWh", TRUE, FALSE)),
        One(Sensor(6, "EnergyLifetime", TRUE, "total_energy", 100, FALSE, "kWh", FALSE, TRUE)),
        One(Sensor(7, "DaysProducing", TRUE, "days_producing", Scale, FALSE, "d", FALSE, TRUE)),
        One(Sensor(8, "HoursExportedToday", FALSE, "today_hours", 167, FALSE, "h", TRUE, FALSE)),
        One(Sensor(9, "HoursExportedYesterday", FALSE, "yesterday_hours", 167, FALSE, "h", TRUE, FALSE)),
        One(Sensor(10, "HoursExportedLifetime", TRUE, "total_hours", 167, FALSE, "h", FALSE, TRUE)),
        One(Sensor(11, "Utilisation", FALSE, "utilisation", Scale, TRUE, "%", FALSE, FALSE)),
        One(Sensor(12, "AverageDailyPower", FALSE, "average_daily_power", Scale, FALSE, "kWh", TRUE, TRUE))
    >>)

StringSensor ==
    One(Sensor(13, "InputVoltage2", FALSE, "input_voltage_2", Scale, TRUE, "V", FALSE, FALSE))

PowerMeterSensors ==
    Tuple(<<
        One(Sensor(14, "MeterToday", TRUE, "meter_today", Scale, FALSE, "kWh", FALSE, FALSE)),
        One(Sensor(15, "MeterYesterday", TRUE, "meter_yesterday", 10 * Scale, FALSE, "kWh", FALSE, FALSE)),
        One(Sensor(16, "MeterLifetime", TRUE, "meter_lifetime", Scale, FALSE, "kWh", FALSE, FALSE))
    >>)

SolarMeterSensors ==
    Tuple(<<
        One(Sensor(17, "Irradiance", FALSE, "irradiance", Scale, TRUE, "W/m2", FALSE, FALSE)),
        One(Sensor(18, "InsolationToday", TRUE, "insolation_today", 10, FALSE, "kWh/m2", FALSE, FALSE)),
        One(Sensor(19, "InsolationYesterday", TRUE, "insolation_yesterday", 10, FALSE, "kWh/m2", FALSE, FALSE))
    >>)

TemperatureUnit_AlwaysC(cap) == "C"

\* t_unit of Sensors.__init__
TemperatureUnit(cap) ==
    IF Truthy(BitAnd(cap, USE_FAHRENHIET)) THEN "F" ELSE "C"

TemperatureSensor(cap) ==
    Tuple(<< One(Sensor(20, "Temperature", FALSE, "temperature", Scale, TRUE,
                        TemperatureUnit(cap), FALSE, FALSE)) >>)

\* Sensors.__init__(inv): [s, err]; None & 1 raises TypeError
NewSensors(inv_capability, inv_dc_strings) ==
    LET st0 == add([s |-> <<>>, err |-> "None"], BaseSensors)
        st1 == IF inv_dc_strings = 2 THEN add(st0, StringSensor) ELSE st0
    IN  IF inv_capability = NoneVal THEN [s |-> st1.s, err |-> "TypeError"]
        ELSE
        LET st2 == IF Truthy(BitAnd(inv_capability, HAS_POWER_METER))
                   THEN add(st1, PowerMeterSensors) ELSE st1
            st3 == IF Truthy(BitAnd(inv_capability, HAS_SOLAR_METER))
                   THEN add(st2, SolarMeterSensors) ELSE st2
            st4 == IF Truthy(BitAnd(inv_capability, HAS_TEMPERATURE))
                   THEN add(st3, TemperatureSensor(inv_capability)) ELSE st3
        IN  st4

SensorsNone == [isNone |-> TRUE, s |-> <<>>]
SensorsOf(s) == [isNone |-> FALSE, s |-> s]

\* the record of a call: op its name, net the outcomes of the HTTP requests it
\* made, status the status of an HTTP error response, found the number of
\* pattern matches in the last page read, parsed whether the XML parsed,
\* matched whether the document holds an element for a sensor of the group
\* polled, decoded whether every such element decoded, args the sensors
\* handed to add or the elements of the document a poll received
NoCall == [op |-> "init", net |-> <<>>, status |-> 0, found |-> 0, parsed |-> FALSE,
           matched |-> FALSE, decoded |-> FALSE, args |-> <<>>]

-----------------------------------------------------------------------------
(* EnaSolar.setup_sensors *)

setup_sensors ==
    LET st == NewSensors(capability, dc_strings)
    IN  /\ sensors' = IF st.err = "None" THEN SensorsOf(st.s) ELSE sensors
        /\ result' = st.err
        /\ last' = [NoCall EXCEPT !.op = "setup_sensors"]
        /\ calls < MaxCalls
        /\ calls' = calls + 1
        /\ UNCHANGED <<url, serial_no, capability, dc_strings, max_output, today>>

-----------------------------------------------------------------------------
(* The HTTP collaborator: what a GET can end in *)

NetOk == [kind |-> "ok", status |-> 200]
NetConnect == [kind |-> "connect", status |-> 0]
NetTimeout == [kind |-> "timeout", status |-> 0]
NetHttp(status) == [kind |-> "http", status |-> status]

NetOutcomes == {NetOk, NetConnect, NetTimeout, NetHttp(401), NetHttp(500)}

\* except asyncio.TimeoutError: return False
TimeoutResult_Raises == "UnexpectedResponse"
TimeoutResult == "False"

\* except ClientConnectorError: raise Exception("No Data")
ConnectorErrorResult_Unexpected == "UnexpectedResponse"
ConnectorErrorResult == "NoData"

\* except ClientResponseError as err: raise UnexpectedResponseException(err)
ResponseErrorResult(status) == "UnexpectedResponse"

\* the outcome of a request that did not deliver a body
NetFailure(net) ==
    CASE net.kind = "connect" -> ConnectorErrorResult
      [] net.kind = "timeout" -> TimeoutResult
      [] OTHER -> ResponseErrorResult(net.status)

-----------------------------------------------------------------------------
(* EnaSolar.interogate_inverter *)

\* pat.findall on settings.html: a sequence of (d1, d2, d3) matches
SettingsPages == { <<>>, << << <<"1", "2">>, <<"1", "0", "0", "0">>, <<"3", "4", "5">> >> >> }

\* pat.findall on the root page: a sequence of matched numbers
RootPages ==
    { <<>>,
      << <<"5">> >>,
      << <<"5">>, <<"2">>, <<"5", ".", "0">> >>,
      << <<"0">>, <<"1">>, <<"0">>, <<"9">> >> }

\* step 1, lines 172-195: [serial_no, result] with result "next" when the
\* call goes on to step 2
SerialNoStep_Continues(net, sn) ==
    IF net.kind # "ok" \/ Len(sn) < 1 THEN [serial_no |-> serial_no, result |-> "next"]
    ELSE [serial_no |-> ParseInt(sn[1][1], 10) * ParseInt(sn[1][2], 10)
                        + ParseInt(sn[1][3], 10),
          result |-> "next"]
SerialNoStep(net, sn) ==
    IF net.kind # "ok" THEN [serial_no |-> serial_no, result |-> NetFailure(net)]
    ELSE IF Len(sn) < 1 THEN [serial_no |-> serial_no, result |-> "IndexError"]
    ELSE [serial_no |-> ParseInt(sn[1][1], 10) * ParseInt(sn[1][2], 10)
                        + ParseInt(sn[1][3], 10),
          result |-> "next"]

\* step 2, lines 198-224: the three assignments in order, each one kept when
\* a later one raises
CapabilityStep(net, cap) ==
    LET old == [capability |-> capability, dc_strings |-> dc_strings,
                max_output |-> max_output]
    IN  IF net.kind # "ok" THEN old @@ [result |-> NetFailure(net)]
        ELSE IF Len(cap) < 1 THEN old @@ [result |-> "IndexError"]
        ELSE IF ParseInt(cap[1], 10) = NoneVal THEN old @@ [result |-> "ValueError"]
        ELSE LET p1 == [old EXCEPT !.capability = ParseInt(cap[1], 10)]
             IN  IF Len(cap) < 2 THEN p1 @@ [result |-> "IndexError"]
                 ELSE IF ParseInt(cap[2], 10) = NoneVal THEN p1 @@ [result |-> "ValueError"]
                 ELSE LET p2 == [p1 EXCEPT !.dc_strings = ParseInt(cap[2], 10)]
                      IN  IF Len(cap) < 3 THEN p2 @@ [result |-> "IndexError"]
                          ELSE [p2 EXCEPT !.max_output = ParseFloat(cap[3])]
                               @@ [result |-> "None"]

interogate_inverter(net1, sn, net2, cap) ==
    /\ calls < MaxCalls
    /\ calls' = calls + 1
    /\ url' = "http://inverter/"
    /\ LET one == SerialNoStep(net1, sn)
       IN  /\ serial_no' = one.serial_no
           /\ IF one.result # "next"
              THEN /\ result' = one.result
                   /\ last' = [NoCall EXCEPT !.op = "interogate_inverter",
                                             !.net = <<net1.kind>>,
                                             !.status = net1.status,
                                             !.found = IF net1.kind = "ok" THEN Len(sn) ELSE 0]
                   /\ UNCHANGED <<capability, dc_strings, max_output>>
              ELSE LET two == CapabilityStep(net2, cap)
                   IN  /\ result' = two.result
                       /\ capability' = two.capability
                       /\ dc_strings' = two.dc_strings
                       /\ max_output' = two.max_output
                       /\ last' = [NoCall EXCEPT !.op = "interogate_inverter",
                                                 !.net = <<net1.kind, net2.kind>>,
                                                 !.status = net2.status,
                                                 !.found = IF net2.kind = "ok" THEN Len(cap) ELSE 0]
    /\ UNCHANGED <<sensors, today>>

-----------------------------------------------------------------------------
(* Decoding *)

\* Python round(num / den, 2) in hundredths, ties to even
RoundHundredths(num, den) ==
    LET q == (num * 100) \div den
        r == (num * 100) % den
    IN  IF 2 * r > den THEN q + 1
        ELSE IF 2 * r = den THEN q + (q % 2)
        ELSE q

RECURSIVE Digits(_)
Digits(n) ==
    IF n < 10 THEN <<HexDigits[n + 1]>>
    ELSE Digits(n \div 10) \o <<HexDigits[(n % 10) + 1]>>

\* '{:0Nd}'
RECURSIVE ZeroPad(_, _)
ZeroPad(txt, width) == IF Len(txt) >= width THEN txt ELSE ZeroPad(<<"0">> \o txt, width)

\* '{:,d}'
RECURSIVE CommaDigits(_)
CommaDigits(n) ==
    IF n < 1000 THEN Digits(n)
    ELSE CommaDigits(n \div 1000) \o <<",">> \o ZeroPad(Digits(n % 1000), 3)

\* the raw counts up to 70000 whose binary64 product raw * 0.0167 * 60 is a
\* whole number of minutes in exact arithmetic and falls just below it in
\* floating point, so that int() yields one minute less
BelowWhole ==
    {3500, 4500, 7000, 9000, 11500, 14000, 15500, 18000, 20500, 23000, 25500,
     28000, 30500, 31000, 31500, 33500, 36000, 38500, 41000, 43500, 46000,
     48500, 51000, 53500, 56000, 58500, 61000, 62000, 63000, 64500, 67000,
     69500}

\* int(x): truncation toward zero of a non-negative value in units of 1/Scale
IntOf_Rounded(value) == (value + Scale \div 2) \div Scale
IntOf(value) == value \div Scale

\* '{:,d}:{:02d}'.format(*divmod(int(value * 60), 60)), value being the
\* product raw * 0.0167
FormatHours(value) ==
    LET exact == IntOf(value * 60)
        minutes == IF value % 167 = 0 /\ (value \div 167) \in BelowWhole
                   THEN exact - 1 ELSE exact
    IN  CommaDigits(minutes \div 60) \o <<":">> \o ZeroPad(Digits(minutes % 60), 2)

\* the body of "if find is not None" up to the scaling: [value, err], value
\* being what sen.value holds when the block is left
Decode(sen, text, hours) ==
    LET raw == IF text = <<>> THEN ValNone ELSE ValStr(text)
        num == IF sen.is_hex
               THEN (IF ParseInt(text, 16) = NoneVal THEN NoneVal
                     ELSE ParseInt(text, 16) * Scale)
               ELSE ParseFloat(text)
        \* num * factor in units of 1/Scale, split to stay within 32 bits
        scaled == (num \div Scale) * sen.factor + ((num % Scale) * sen.factor) \div Scale
    IN  IF text = <<>> THEN [value |-> raw, err |-> "TypeError"]
        ELSE IF num = NoneVal THEN [value |-> raw, err |-> "ValueError"]
        ELSE IF hours /\ sen.unit = "h"
             THEN [value |-> ValStr(FormatHours(scaled)), err |-> "None"]
             ELSE [value |-> ValFloat(scaled), err |-> "None"]

\* xml.find(tag): the position of the first child with that tag, 0 for None
RECURSIVE Find(_, _, _)
Find(el, tag, i) ==
    IF i > Len(el) THEN 0
    ELSE IF el[i].tag = tag THEN i
    ELSE Find(el, tag, i + 1)

\* if not sen.is_meter: continue (read_meters), if sen.is_meter: continue
\* (read_data)
SkipSensor_Never(sen, meters) == FALSE
SkipSensor(sen, meters) == sen.is_meter # meters

\* the per-sensor loop of read_meters (meters = TRUE) and read_data
\* (meters = FALSE) from position i on; st is [s, err, at_least_one_enabled]
RECURSIVE SensorLoop(_, _, _, _)
SensorLoop(st, el, meters, i) ==
    IF i > Len(st.s) \/ st.err # "None" THEN st
    ELSE LET sen == st.s[i]
             f == Find(el, sen.key, 1)
         IN  IF SkipSensor(sen, meters) \/ f = 0 THEN SensorLoop(st, el, meters, i + 1)
             ELSE LET d == Decode(sen, el[f].text, ~meters)
                  IN  IF d.err # "None"
                      THEN [st EXCEPT !.s[i].value = d.value, !.err = d.err]
                      ELSE SensorLoop(
                               [st EXCEPT !.s[i].value = d.value,
                                          !.s[i].date = today,
                                          !.s[i].enabled = TRUE,
                                          !.at_least_one_enabled = TRUE],
                               el, meters, i + 1)

\* if not at_least_one_enabled: raise ET.ParseError
NoneEnabled_Ignored(at_least_one_enabled) == FALSE
NoneEnabled(at_least_one_enabled) == ~at_least_one_enabled

\* float(x) of a sensor value: [n, err]
FloatOf(value) ==
    IF value.t = "None" THEN [n |-> 0, err |-> "TypeError"]
    ELSE IF value.t = "float" THEN [n |-> value.n, err |-> "None"]
    ELSE IF ParseFloat(value.s) = NoneVal THEN [n |-> 0, err |-> "ValueError"]
    ELSE [n |-> ParseFloat(value.s), err |-> "None"]

\* lines 263-267: [s, err]
Utilisation(s) ==
    IF ~contains(s, "OutputPower") \/ ~contains(s, "Utilisation")
    THEN [s |-> s, err |-> "KeyError"]
    ELSE LET sen1 == getitem(s, "OutputPower")
             i2 == getitem_index(s, "Utilisation")
             f == FloatOf(sen1.value)
         IN  IF f.err # "None" THEN [s |-> s, err |-> f.err]
             ELSE IF max_output = NoneVal THEN [s |-> s, err |-> "TypeError"]
             ELSE IF max_output = 0 THEN [s |-> s, err |-> "ZeroDivisionError"]
             ELSE [s |-> [s EXCEPT ![i2].value =
                                       ValFloat(RoundHundredths(f.n * 100, max_output)
                                                * (Scale \div 100)),
                                   ![i2].date = today,
                                   ![i2].enabled = TRUE],
                   err |-> "None"]

\* lines 333-338: [s, err]
AverageDailyPower(s) ==
    IF ~contains(s, "EnergyLifetime") \/ ~contains(s, "DaysProducing")
       \/ ~contains(s, "AverageDailyPower")
    THEN [s |-> s, err |-> "KeyError"]
    ELSE LET sen1 == getitem(s, "EnergyLifetime")
             sen2 == getitem(s, "DaysProducing")
             i3 == getitem_index(s, "AverageDailyPower")
             f == FloatOf(sen1.value)
         IN  IF f.err # "None" THEN [s |-> s, err |-> f.err]
             ELSE IF sen2.value.t # "float" THEN [s |-> s, err |-> "TypeError"]
             ELSE IF sen2.value.n = 0 THEN [s |-> s, err |-> "ZeroDivisionError"]
             ELSE [s |-> [s EXCEPT ![i3].value =
                                       ValFloat(RoundHundredths(f.n, sen2.value.n)
                                                * (Scale \div 100)),
                                   ![i3].date = today,
                                   ![i3].enabled = TRUE],
                   err |-> "None"]

\* a document: ok whether ET.fromstring parses it, el the children of its root
Element(tag, text) == [tag |-> tag, text |-> text]
Malformed == [ok |-> FALSE, el |-> <<>>]

Maybe(tag, texts) == {<<>>} \cup {<<Element(tag, x)>> : x \in texts}

\* meters.xml bodies: unparsable, holding only an element of the other
\* group, or any choice of the two meter elements
MeterDocs ==
    {Malformed, [ok |-> TRUE, el |-> <<Element("EnergyToday", <<"0", "3", "E", "8">>)>>]}
    \cup {[ok |-> TRUE, el |-> a \o b] :
            a \in Maybe("OutputPower", {<<"3", ".", "5">>, <<"x">>}),
            b \in Maybe("InputVoltage", {<<"2", "3", "0">>})}

\* data.xml bodies, likewise; the day counters come together or not at all
DataDocs ==
    {Malformed, [ok |-> TRUE, el |-> <<Element("OutputPower", <<"3", ".", "5">>)>>]}
    \cup {[ok |-> TRUE, el |-> a \o b \o c] :
            a \in {<<>>, <<Element("EnergyToday", <<"0", "3", "E", "8">>),
                           Element("HoursExportedToday", <<"9", "0">>)>>},
            b \in Maybe("EnergyLifetime", {<<"0", "3", "E", "8">>}),
            c \in Maybe("DaysProducing", {<<"0">>, <<"3", "2">>})}

\* whether the document holds an element for a sensor of the group
HasGroupKey(s, doc, meters) ==
    \E i \in 1..Len(s) : s[i].is_meter = meters /\ Find(doc.el, s[i].key, 1) # 0

\* the body of read_meters / read_data once the URL is built:
\* [s, result, decoded], decoded being whether the loop ran to its end
Poll(net, doc, meters) ==
    IF net.kind # "ok"
    THEN [s |-> sensors.s, result |-> NetFailure(net), decoded |-> FALSE]
    ELSE IF ~doc.ok
    THEN [s |-> sensors.s, result |-> "UnexpectedResponse", decoded |-> FALSE]
    ELSE IF sensors.isNone
    THEN [s |-> sensors.s, result |-> "TypeError", decoded |-> FALSE]
    ELSE LET st == SensorLoop([s |-> sensors.s, err |-> "None",
                               at_least_one_enabled |-> FALSE], doc.el, meters, 1)
         IN  IF st.err # "None" THEN [s |-> st.s, result |-> st.err, decoded |-> FALSE]
             ELSE IF NoneEnabled(st.at_least_one_enabled)
                  THEN [s |-> st.s, result |-> "UnexpectedResponse", decoded |-> TRUE]
             ELSE LET c == IF meters THEN Utilisation(st.s) ELSE AverageDailyPower(st.s)
                  IN  [s |-> c.s, result |-> IF c.err = "None" THEN "True" ELSE c.err,
                       decoded |-> TRUE]

\* what the call leaves in last
PollRecord(op, net, doc, meters, decoded) ==
    [NoCall EXCEPT
        !.op = op,
        !.net = <<net.kind>>,
        !.status = net.status,
        !.parsed = net.kind = "ok" /\ doc.ok,
        !.matched = net.kind = "ok" /\ doc.ok /\ HasGroupKey(sensors.s, doc, meters),
        !.decoded = decoded,
        !.args = IF net.kind = "ok" THEN doc.el ELSE <<>>]

\* self.url + URL_PATH_METERS raises TypeError while url is None
read_meters(net, doc) ==
    /\ calls < MaxCalls
    /\ calls' = calls + 1
    /\ IF url = "None"
       THEN /\ result' = "TypeError"
            /\ last' = [NoCall EXCEPT !.op = "read_meters"]
            /\ UNCHANGED sensors
       ELSE LET p == Poll(net, doc, TRUE)
            IN  /\ result' = p.result
                /\ sensors' = [sensors EXCEPT !.s = p.s]
                /\ last' = PollRecord("read_meters", net, doc, TRUE, p.decoded)
    /\ UNCHANGED <<url, serial_no, capability, dc_strings, max_output, today>>

read_data(net, doc) ==
    /\ calls < MaxCalls
    /\ calls' = calls + 1
    /\ IF url = "None"
       THEN /\ result' = "TypeError"
            /\ last' = [NoCall EXCEPT !.op = "read_data"]
            /\ UNCHANGED sensors
       ELSE LET p == Poll(net, doc, FALSE)
            IN  /\ result' = p.result
                /\ sensors' = [sensors EXCEPT !.s = p.s]
                /\ last' = PollRecord("read_data", net, doc, FALSE, p.decoded)
    /\ UNCHANGED <<url, serial_no, capability, dc_strings, max_output, today>>

\* the date changes between calls
Midnight ==
    /\ today < MaxDay
    /\ today' = today + 1
    /\ UNCHANGED <<url, serial_no, capability, dc_strings, max_output, sensors,
                   result, last, calls>>

-----------------------------------------------------------------------------
(* The device session *)

Init ==
    /\ url = "None"
    /\ serial_no = NoneVal
    /\ capability = NoneVal
    /\ dc_strings = NoneVal
    /\ max_output = NoneVal
    /\ sensors = SensorsNone
    /\ today = 0
    /\ result = "None"
    /\ last = NoCall
    /\ calls = 0

\* a response: the outcome of the GET and, when it delivered one, the body
Responses(bodies, none) ==
    {[net |-> n, body |-> none] : n \in NetOutcomes \ {NetOk}}
    \cup {[net |-> NetOk, body |-> b] : b \in bodies}

\* the root page is requested only when step 1 went through
RootResponses(r1) ==
    IF SerialNoStep(r1.net, r1.body).result = "next"
    THEN Responses(RootPages, <<>>)
    ELSE {[net |-> NetOk, body |-> <<>>]}

Next ==
    \/ \E r1 \in Responses(SettingsPages, <<>>) : \E r2 \in RootResponses(r1) :
           interogate_inverter(r1.net, r1.body, r2.net, r2.body)
    \/ setup_sensors
    \/ \E r \in Responses(MeterDocs, Malformed) : read_meters(r.net, r.body)
    \/ \E r \in Responses(DataDocs, Malformed) : read_data(r.net, r.body)
    \/ Midnight

Spec == Init /\ [][Next]_vars

-----------------------------------------------------------------------------
(* The registry under arbitrary adds *)

AddNames == {"a", "OutputPower", "output_power"}
AddKeys == {"a", "OutputPower"}

\* a fresh Sensor object of the caller
NewSensor(id, name, key) ==
    Sensor(id, key, FALSE, name, Scale, TRUE, "", FALSE, FALSE)

FreshId(k) == 100 + 2 * calls + k

\* what a caller hands to Sensors.add: a Sensor, a sequence nesting
\* another sequence, or something that is no Sensor
AddInputs ==
    {One(NewSensor(FreshId(0), n, k)) : n \in AddNames, k \in AddKeys}
    \cup {Tuple(<<One(NewSensor(FreshId(0), n1, k)),
                  Tuple(<<One(NewSensor(FreshId(1), n2, k))>>)>>) :
            n1 \in AddNames, n2 \in AddNames, k \in AddKeys}
    \cup {Tuple(<<One(NewSensor(FreshId(0), "a", "a")), [tag |-> "other"]>>)}

RECURSIVE Flatten(_)
Flatten(x) ==
    IF x.tag = "Sensor" THEN <<x.sen>>
    ELSE IF x.tag = "tuple" THEN
        (IF x.items = <<>> THEN <<>>
         ELSE Flatten(Head(x.items)) \o Flatten(Tuple(Tail(x.items))))
    ELSE <<>>

SensorsAdd(x) ==
    /\ calls < MaxAdds
    /\ ~sensors.isNone
    /\ LET st == add([s |-> sensors.s, err |-> "None"], x)
       IN  /\ sensors' = SensorsOf(st.s)
           /\ result' = st.err
    /\ last' = [NoCall EXCEPT !.op = "add", !.args = Flatten(x)]
    /\ calls' = calls + 1
    /\ UNCHANGED <<url, serial_no, capability, dc_strings, max_output, today>>

RegInit ==
    /\ url = "http://inverter/"
    /\ serial_no = 12345
    /\ capability \in {0, 5}
    /\ dc_strings \in {1, 2}
    /\ max_output = 5 * Scale
    /\ today = 0
    /\ sensors = SensorsOf(NewSensors(capability, dc_strings).s)
    /\ result = "None"
    /\ last = [NoCall EXCEPT !.op = "setup_sensors"]
    /\ calls = 0

RegNext == \E x \in AddInputs : SensorsAdd(x)

SpecReg == RegInit /\ [][RegNext]_vars

-----------------------------------------------------------------------------
(* setup_sensors over every discovered profile *)

SetupInit ==
    /\ url = "http://inverter/"
    /\ serial_no = 12345
    /\ capability \in 0..MaxCapability
    /\ dc_strings \in 0..MaxDcStrings
    /\ max_output = 5 * Scale
    /\ today = 0
    /\ sensors = SensorsNone
    /\ result = "None"
    /\ last = NoCall
    /\ calls = 0

SetupNext == setup_sensors

SpecSetup == SetupInit /\ [][SetupNext]_vars

-----------------------------------------------------------------------------
(* One data.xml element decoded on a discovered session *)

\* '{:X}'
RECURSIVE HexText(_)
HexText(n) ==
    IF n < 16 THEN <<HexDigits[n + 1]>>
    ELSE HexText(n \div 16) \o <<HexDigits[(n % 16) + 1]>>

\* data.xml bodies of one element: the day's energy, the day's export time
\* in minutes, the lifetime export time in steps of 500 minutes, every other
\* one 300 minutes further
DecodeDocs ==
    {[ok |-> TRUE, el |-> <<e>>] :
        e \in {Element("EnergyToday", <<"0", "3", "E", "8">>)}
              \cup {Element("HoursExportedToday", Digits(n)) : n \in 0..MaxMinutes}
              \cup {Element("HoursExportedLifetime", HexText(500 * k + 300 * (k % 2))) :
                        k \in 0..MaxHalfThousands}}

DecodeInit ==
    /\ url = "http://inverter/"
    /\ serial_no = 12345
    /\ capability = 0
    /\ dc_strings = 1
    /\ max_output = 5 * Scale
    /\ today = 0
    /\ sensors = SensorsOf(NewSensors(capability, dc_strings).s)
    /\ result = "None"
    /\ last = [NoCall EXCEPT !.op = "setup_sensors"]
    /\ calls = 0

DecodeNext == \E doc \in DecodeDocs : calls = 0 /\ read_data(NetOk, doc)

SpecDecode == DecodeInit /\ [][DecodeNext]_vars

-----------------------------------------------------------------------------
(* Claims about the registry *)

Names(s) == {s[i].name : i \in 1..Len(s)}
Matches(sen, x) == sen.name = x \/ sen.key = x

\* C1: after any sequence of Sensors.add calls no two sensors of the registry
\* share a name, and a completed add of sensors leaves the last one added at
\* the end of the iteration order.
C1_UniqueNames ==
    ~sensors.isNone =>
        /\ \A i, j \in 1..Len(sensors.s) :
               sensors.s[i].name = sensors.s[j].name => i = j
        /\ (last.op = "add" /\ result = "None" /\ last.args # <<>>) =>
               sensors.s[Len(sensors.s)] = last.args[Len(last.args)]

Keys(s) == {s[i].key : i \in 1..Len(s)}
Idents(s) == Names(s) \cup Keys(s) \cup AddNames \cup AddKeys \cup {"missing"}

\* C2 as claimed: for every sensor s of the registry, lookup by s.name and
\* lookup by s.key both return s itself.
C2_LookupReturnsSelf ==
    ~sensors.isNone =>
        \A i \in 1..Len(sensors.s) :
            /\ getitem(sensors.s, sensors.s[i].name) = sensors.s[i]
            /\ getitem(sensors.s, sensors.s[i].key) = sensors.s[i]

\* C2 as amended: lookup of an identifier returns the first sensor in
\* iteration order whose name or key equals it (so lookup by s.name or s.key
\* returns s itself when no earlier sensor carries that identifier as its
\* name or key), fails with KeyError when no sensor's name or key equals it,
\* and contains(identifier) is true exactly when the lookup succeeds.
C2_LookupFirstMatch ==
    ~sensors.isNone =>
        LET s == sensors.s
        IN  \A x \in Idents(s) :
                LET hits == {i \in 1..Len(s) : Matches(s[i], x)}
                IN  IF hits = {}
                    THEN getitem_index(s, x) = 0 /\ ~contains(s, x)
                    ELSE /\ contains(s, x)
                         /\ getitem_index(s, x) \in hits
                         /\ \A j \in hits : getitem_index(s, x) <= j
                         /\ \A i \in hits :
                                (\A j \in 1..(i - 1) : ~Matches(s[j], x))
                                    => getitem(s, x) = s[i]

\* C2 witness: two sensors share a key and lookup by that key returns the
\* earlier one, while a lookup of an absent identifier misses.
C2_Witness ==
    /\ ~sensors.isNone
    /\ last.op = "add"
    /\ \E i, j \in 1..Len(sensors.s) :
           /\ i < j
           /\ sensors.s[i].key = sensors.s[j].key
           /\ getitem(sensors.s, sensors.s[j].key) = sensors.s[i]
    /\ ~contains(sensors.s, "missing")

-----------------------------------------------------------------------------
(* Claims about setup_sensors *)

BaseNames == <<"output_power", "input_voltage_1", "output_voltage", "today_energy",
               "yesterday_energy", "total_energy", "days_producing", "today_hours",
               "yesterday_hours", "total_hours", "utilisation", "average_daily_power">>

HasFlag(cap, bit) == (cap \div bit) % 2 = 1

ExpectedNames(cap, dc) ==
    {BaseNames[i] : i \in 1..Len(BaseNames)}
    \cup (IF dc = 2 THEN {"input_voltage_2"} ELSE {})
    \cup (IF HasFlag(cap, 1) THEN {"meter_today", "meter_yesterday", "meter_lifetime"} ELSE {})
    \cup (IF HasFlag(cap, 2) THEN {"irradiance", "insolation_today", "insolation_yesterday"} ELSE {})
    \cup (IF HasFlag(cap, 4) THEN {"temperature"} ELSE {})

\* C3: the registry built by setup_sensors holds exactly the 12 base sensors,
\* plus input_voltage_2 iff dc_strings = 2, plus the three meter sensors iff
\* bit 1 is set, plus the three solar sensors iff bit 2 is set, plus
\* temperature iff bit 4 is set, whose unit is "F" iff bit 256 is set and "C"
\* otherwise; capability 5 with two strings gives 17 sensors.
C3_SetupSensors ==
    (last.op = "setup_sensors" /\ result = "None") =>
        /\ ~sensors.isNone
        /\ Names(sensors.s) = ExpectedNames(capability, dc_strings)
        /\ Len(sensors.s) = Cardinality(ExpectedNames(capability, dc_strings))
        /\ \A i \in 1..Len(BaseNames) : sensors.s[i].name = BaseNames[i]
        /\ HasFlag(capability, 4) =>
               getitem(sensors.s, "temperature").unit =
                   (IF HasFlag(capability, 256) THEN "F" ELSE "C")
        /\ (capability = 5 /\ dc_strings = 2) => Len(sensors.s) = 17

\* C3 witness: a registry built for a Fahrenheit device with a temperature sensor
C3_Witness ==
    /\ last.op = "setup_sensors"
    /\ result = "None"
    /\ capability = 260
    /\ ~sensors.isNone
    /\ getitem(sensors.s, "temperature").unit = "F"

-----------------------------------------------------------------------------
(* Claims about the device session *)

Polls == {"read_meters", "read_data"}
Requests == Polls \cup {"interogate_inverter"}

\* the last request of the call ended this way
EndedIn(call, kind) ==
    call.op \in Requests /\ call.net # <<>> /\ call.net[Len(call.net)] = kind

HasValue == ~sensors.isNone /\ \E i \in 1..Len(sensors.s) : sensors.s[i].value.t = "float"

\* C4: a read_meters / read_data call on a session with a registry whose
\* document parses but holds no element for any sensor of the group polled
\* raises the unexpected-response failure.
C4_NoMatchUnexpected ==
    (last.op \in Polls /\ last.parsed /\ ~last.matched /\ ~sensors.isNone)
        => result = "UnexpectedResponse"

\* C4 witness: a data.xml that parses, matches no data sensor, and is refused
C4_Witness ==
    /\ last.op = "read_data"
    /\ last.parsed
    /\ ~last.matched
    /\ ~sensors.isNone
    /\ result = "UnexpectedResponse"

\* C5: a call of interogate_inverter (either step), read_meters or read_data
\* whose request times out returns False and leaves the registry, with every
\* sensor's value, date and enabled flag, as it was.
C5_TimeoutIncomplete ==
    [][EndedIn(last', "timeout") => (result' = "False" /\ sensors' = sensors)]_vars

\* C5 witness: read_meters timed out on a session whose sensors hold values
C5_Witness ==
    /\ last.op = "read_meters"
    /\ EndedIn(last, "timeout")
    /\ result = "False"
    /\ HasValue

\* C6 as claimed: in interogate_inverter an HTTP error response with status
\* 401 ends the call with a failure other than the unexpected-response one,
\* and any other HTTP error status with the unexpected-response failure.
C6_UnauthorizedDistinct ==
    (last.op = "interogate_inverter" /\ EndedIn(last, "http")) =>
        IF last.status = 401
        THEN result \notin {"UnexpectedResponse", "None", "False"}
        ELSE result = "UnexpectedResponse"

\* C7 as claimed: in interogate_inverter a settings page without the serial
\* number pattern, and a root page with fewer than three matches, end the
\* call with the unexpected-response failure.
C7_MalformedPageUnexpected ==
    (/\ last.op = "interogate_inverter"
     /\ EndedIn(last, "ok")
     /\ \/ Len(last.net) = 1 /\ last.found = 0
        \/ Len(last.net) = 2 /\ last.found < 3)
        => result = "UnexpectedResponse"

\* C8: a call of interogate_inverter, read_meters or read_data whose request
\* fails to connect ends with the "no data" fault, which is neither the
\* unexpected-response failure nor the False return value, and leaves the
\* registry as it was.
C8_NoData ==
    [][EndedIn(last', "connect") =>
          /\ result' = "NoData"
          /\ result' \notin {"UnexpectedResponse", "False"}
          /\ sensors' = sensors]_vars

\* C8 witness: read_data could not connect on a session whose sensors hold values
C8_Witness ==
    /\ last.op = "read_data"
    /\ EndedIn(last, "connect")
    /\ result = "NoData"
    /\ HasValue

Discovered ==
    serial_no # NoneVal /\ capability # NoneVal /\ dc_strings # NoneVal /\ max_output # NoneVal

\* C9 as claimed, and only for sessions whose profile is fully discovered with
\* a non-zero max_output: every read_meters call whose document parses,
\* matches a meter sensor and decodes returns True with utilisation =
\* round(output_power * 100 / max_output, 2), and every such read_data call
\* returns True with average_daily_power = round(total_energy / days_producing, 2).
C9_DerivedAlways ==
    (/\ last.op \in Polls /\ last.parsed /\ last.matched /\ last.decoded
     /\ ~sensors.isNone /\ Discovered /\ max_output > 0) =>
        /\ result = "True"
        /\ last.op = "read_meters" =>
               getitem(sensors.s, "utilisation").value =
                   ValFloat(RoundHundredths(getitem(sensors.s, "output_power").value.n * 100,
                                            max_output) * (Scale \div 100))
        /\ last.op = "read_data" =>
               getitem(sensors.s, "average_daily_power").value =
                   ValFloat(RoundHundredths(getitem(sensors.s, "total_energy").value.n,
                                            getitem(sensors.s, "days_producing").value.n)
                            * (Scale \div 100))

\* C10 as claimed: whenever the session holds a registry, serial_no,
\* capability, dc_strings and max_output are all set.
C10_RegistryAfterDiscovery == ~sensors.isNone => Discovered

-----------------------------------------------------------------------------
(* Claims about decoding *)

\* the text of the element with that tag in the document the last poll received
Polled(tag) == last.args[Find(last.args, tag, 1)].text

\* the last call was a read_data on a registry whose document held that tag
DataPolled(tag) ==
    last.op = "read_data" /\ ~sensors.isNone /\ Find(last.args, tag, 1) # 0

\* C11 as claimed: read_data decoding the sensor with key "EnergyToday" from
\* an element whose text is 03E8 yields the value 16.0.
C11_Yields16 ==
    (DataPolled("EnergyToday") /\ Polled("EnergyToday") = <<"0", "3", "E", "8">>) =>
        getitem(sensors.s, "EnergyToday").value = ValFloat(16 * Scale)

\* C11 as amended: read_data decoding the sensor with key "EnergyToday" from
\* an element whose text is 03E8 yields the value 10.0 (0x3E8 = 1000, times
\* the factor 0.01).
C11_Yields10 ==
    (DataPolled("EnergyToday") /\ Polled("EnergyToday") = <<"0", "3", "E", "8">>) =>
        getitem(sensors.s, "EnergyToday").value = ValFloat(10 * Scale)

\* C11 witness: a data.xml with EnergyToday 03E8 was decoded into today_energy
C11_Witness ==
    /\ DataPolled("EnergyToday")
    /\ Polled("EnergyToday") = <<"0", "3", "E", "8">>
    /\ getitem(sensors.s, "today_energy").value.t = "float"
    /\ getitem(sensors.s, "today_energy").enabled

\* an H:MM text: hour digits (with or without thousands separators), a colon,
\* two minute digits
IsHMM(txt) ==
    /\ Len(txt) >= 4
    /\ txt[Len(txt) - 2] = ":"
    /\ \A i \in 1..Len(txt) :
           \/ i = Len(txt) - 2
           \/ IsDigit(txt[i], 10)
           \/ (i < Len(txt) - 2 /\ txt[i] = ",")

\* a value that is unset or the result of a completed decode or derivation
IsDecoded(sen) ==
    \/ sen.value.t = "None"
    \/ sen.value.t = "float"
    \/ (sen.value.t = "str" /\ sen.unit = "h" /\ IsHMM(sen.value.s))

DerivedKeys == {"Utilisation", "AverageDailyPower"}

\* C12 as claimed, and only for sessions whose profile is fully discovered:
\* after every step each sensor's value is unset or the result of a completed
\* decode or derivation, never raw document text, even when the poll failed;
\* and a poll whose document holds no element for a (non-derived) sensor's
\* key leaves that sensor's value and date unchanged and does not turn its
\* enabled flag from true to false.
C12_NeverRawText ==
    [][(~sensors'.isNone /\ Discovered) =>
          /\ \A i \in 1..Len(sensors'.s) : IsDecoded(sensors'.s[i])
          /\ (last'.op \in Polls /\ ~sensors.isNone) =>
                 \A i \in 1..Len(sensors.s) :
                     (sensors.s[i].key \notin DerivedKeys
                      /\ Find(last'.args, sensors.s[i].key, 1) = 0) =>
                         /\ sensors'.s[i].value = sensors.s[i].value
                         /\ sensors'.s[i].date = sensors.s[i].date
                         /\ sensors.s[i].enabled => sensors'.s[i].enabled]_vars

HourKeys == {"HoursExportedToday", "HoursExportedYesterday", "HoursExportedLifetime"}

\* the raw count an hour element carries, and its product with the factor
\* 0.0167 in units of 1/Scale
RawHours(tag) ==
    IF getitem(sensors.s, tag).is_hex THEN ParseInt(Polled(tag), 16)
    ELSE ParseFloat(Polled(tag)) \div Scale
ScaledHours(tag) == RawHours(tag) * 167

\* round(x) of a value in units of 1/Scale; either neighbour on a tie
RoundedOf(value) ==
    LET q == value \div Scale
        r == value % Scale
    IN  IF 2 * r > Scale THEN {q + 1}
        ELSE IF 2 * r = Scale THEN {q, q + 1}
        ELSE {q}

\* int(x) of the binary64 product raw * 0.0167 * 60
TruncatedMinutes(tag) ==
    LET exact == (ScaledHours(tag) * 60) \div Scale
    IN  IF RawHours(tag) \in BelowWhole THEN exact - 1 ELSE exact

\* C13 as claimed: for every unit-"h" sensor that read_data decodes, the
\* stored value is H:MM with total minutes = round(scaled value * 60), H the
\* total minutes div 60 in plain decimal digits and MM the total minutes mod
\* 60 in two zero-padded digits.
C13_RoundedPlain ==
    \A tag \in HourKeys :
        DataPolled(tag) =>
            \E m \in RoundedOf(ScaledHours(tag) * 60) :
                getitem(sensors.s, tag).value =
                    ValStr(Digits(m \div 60) \o <<":">> \o ZeroPad(Digits(m % 60), 2))

\* C13 as amended: for every unit-"h" sensor that read_data decodes, the
\* stored value is H:MM with total minutes = int(scaled value * 60), the
\* floating-point product truncated toward zero and never rounded up, H the
\* total minutes div 60 in decimal digits grouped in threes by commas (1,015
\* for 1015 hours) and MM the total minutes mod 60 in two zero-padded digits.
C13_TruncatedGrouped ==
    \A tag \in HourKeys :
        DataPolled(tag) =>
            LET m == TruncatedMinutes(tag)
            IN  getitem(sensors.s, tag).value =
                    ValStr(CommaDigits(m \div 60) \o <<":">> \o ZeroPad(Digits(m % 60), 2))

\* C13 witness: a lifetime count of 60800 (0xED80, 1015 h 21.6 min) was
\* decoded into 1,015:21
C13_Witness ==
    /\ DataPolled("HoursExportedLifetime")
    /\ RawHours("HoursExportedLifetime") = 60800
    /\ getitem(sensors.s, "total_hours").value =
           ValStr(<<"1", ",", "0", "1", "5", ":", "2", "1">>)

-----------------------------------------------------------------------------
(* Claims about what the calls leave alone *)

\* the fields of a sensor that Sensor.__init__ fixes
Schema(sen) ==
    <<sen.id, sen.key, sen.name, sen.is_hex, sen.factor, sen.unit, sen.is_meter,
      sen.per_day_basis, sen.per_total_basis>>

\* the fields of a sensor that the polls write
Reading(sen) == <<sen.value, sen.date, sen.enabled>>

\* C14: whatever its outcome, read_meters changes value, date and enabled of
\* meter-group sensors only and read_data those of non-meter-group sensors
\* only; neither changes the registry's membership or iteration order, any
\* sensor's schema fields, or the profile fields.
C14_PollFrame ==
    [][last'.op \in Polls =>
          /\ <<serial_no', capability', dc_strings', max_output'>> =
                 <<serial_no, capability, dc_strings, max_output>>
          /\ sensors'.isNone = sensors.isNone
          /\ Len(sensors'.s) = Len(sensors.s)
          /\ \A i \in 1..Len(sensors.s) :
                 /\ Schema(sensors'.s[i]) = Schema(sensors.s[i])
                 /\ sensors.s[i].is_meter # (last'.op = "read_meters") =>
                        Reading(sensors'.s[i]) = Reading(sensors.s[i])]_vars

\* C14 witness: a read_meters that set the meter sensors, the derived
\* utilisation included, on a registry whose data sensors hold values
C14_Witness ==
    /\ last.op = "read_meters"
    /\ result = "True"
    /\ ~sensors.isNone
    /\ getitem(sensors.s, "utilisation").value.t = "float"
    /\ getitem(sensors.s, "today_energy").value.t = "float"
    /\ getitem(sensors.s, "today_hours").value.t = "str"

IsSet(x) == x # NoneVal

\* the profile fields are set in the order serial_no, capability, dc_strings,
\* max_output
ProfileOrder ==
    /\ IsSet(max_output) => IsSet(dc_strings)
    /\ IsSet(dc_strings) => IsSet(capability)
    /\ IsSet(capability) => IsSet(serial_no)

\* the settings-page step of the call did not get to a serial number: the
\* request failed, or the page held no match
FirstStepFailed(call) ==
    /\ call.op = "interogate_inverter"
    /\ \/ call.net[1] # "ok"
       \/ (Len(call.net) = 1 /\ call.found = 0)

\* C15: on a fresh session, in every reachable state max_output set implies
\* dc_strings set, which implies capability set, which implies serial_no set;
\* the root page is requested only in an interogate_inverter call whose
\* settings-page step extracted a serial number, and a timeout, connection
\* failure, HTTP error or missing pattern in the first step leaves
\* capability, dc_strings and max_output as they were.
C15_DiscoveryOrder ==
    [][/\ ProfileOrder
       /\ ProfileOrder'
       /\ (last'.op = "interogate_inverter" /\ Len(last'.net) = 2) =>
              (last'.net[1] = "ok" /\ IsSet(serial_no'))
       /\ FirstStepFailed(last') =>
              /\ Len(last'.net) = 1
              /\ <<capability', dc_strings', max_output'>> =
                     <<capability, dc_strings, max_output>>]_vars

\* C15 witness: the settings page of a second interogate_inverter call held
\* no serial number, on a session whose profile an earlier call had filled
C15_Witness ==
    /\ FirstStepFailed(last)
    /\ last.net = <<"ok">>
    /\ result = "IndexError"
    /\ Discovered

====
